---- MODULE Spec2Model ----
(***************************************************************************)
(* Model of access_api.py: the fair-share rate-limiting proxy, and of the  *)
(* sliding-window limiter of its upstream mock, limited_mock.py.           *)
(*                                                                         *)
(* Units.  Monotonic time is counted in whole seconds (one tick of `now'). *)
(* Token amounts (tokens, cap, cost) are counted in micro-tokens, rates in *)
(* micro-tokens per second, so that the dormant rate 1e-6 of the source is *)
(* exactly 1.  Waits returned by take() are durations in milliseconds,     *)
(* rounded up; a sleep of w ms ends at the first tick at or after its      *)
(* nominal end (asyncio.sleep never returns early).                        *)
(*                                                                         *)
(* Configuration of the checked instance (environment variables of the     *)
(* source): LIMIT_PER_MINUTE=60, GLOBAL_CAP=2, ACTIVE_WINDOW_SECONDS=2,    *)
(* BURST_WINDOW_SECONDS=30, PREFER_WAIT_DEFAULT=0.                         *)
(*                                                                         *)
(* asyncio runs one task at a time and switches only at an await, so each  *)
(* action below is the code between two awaits of the handler `proxy'.     *)
(***************************************************************************)
EXTENDS Integers, Sequences, FiniteSets, TLC

\* ------------------------------------------------------------ bounds
\* latest arrival time of the second request
MaxArrive == 3
\* longest upstream round trip, in seconds (the shortest is 1)
MaxRtt == 1
\* the Prefer: wait=<seconds> value requests may carry
MaxWait == 3
\* the negative Retry-After value the upstream may send is -MaxNeg
MaxNeg == 1
\* SpecBucket: calls of take() on the global bucket within one second, and its horizon
MaxTakes == 3
BucketHorizon == 3
\* SpecOverload: the Prefer: wait value of its two requests
LongWait == 30
\* the retry counters stop counting there
MaxCount == 40
\* the upstream mock: limit and length in seconds of its first window, and the
\* time its clock runs, in seconds
MockLimit == 2
MockWin == 2
MockHorizon == 3

\* ------------------------------------------------------------ config
TokenUnit == 1000000
LIMIT_PER_MIN == 60
RATE_G == (LIMIT_PER_MIN * TokenUnit) \div 60
CAP_G == 2 * TokenUnit
ACTIVE_WINDOW == 2
BURST_WINDOW == 30
PREFER_WAIT_DEFAULT == 0
IDLE_EVICT == 300
DORMANT_RATE == 1
COST == TokenUnit
None == -999
\* a header value that float() rejects, e.g. "wait=soon"
NON_NUMERIC == -998
\* float("-inf"), which float() parses from a header value
NEG_INF == 0 - 1000000

RATE_LIMIT_STATUSES == {429, 503}
TRANSIENT_5XX == {500, 502, 504}
FALLBACK_RA(sc) == IF sc = 429 THEN 1 ELSE IF sc = 503 THEN 60 ELSE 1

\* ------------------------------------------------------------ inputs
\* two connection ids and two concurrent requests
Conns == {"c1", "c2"}
Reqs == {1, 2}
\* Prefer header: None = absent, otherwise wait=<seconds>
PreferVals == {None, MaxWait}
\* Prefer headers of every kind: absent, not a number, negative, zero, positive
PreferHeaders == {None, NON_NUMERIC, 0 - MaxNeg, 0, MaxWait}
\* a positive PREFER_WAIT_DEFAULT, for the runs that configure one
POSITIVE_DEFAULT == 2
\* value of one reset header: None = absent, otherwise a number of seconds
RetryAfterVals == {None, 0, 0 - MaxNeg, 2}
\* (retry-after, ratelimit-reset, x-ratelimit-reset, x-rate-limit-reset)
HeaderChoices ==
    {<<v, None, None, None>> : v \in RetryAfterVals} \cup {<<None, 2, None, None>>}
NoHeaders == <<None, None, None, None>>
\* reset headers in every position, absent, unparseable, zero or positive
AllHeaders ==
    {<<a, b, None, d>> : a \in {None, NON_NUMERIC, 0, 2}, b \in {None, 3},
                         d \in {None, 1}}
    \cup {<<None, None, 0, 1>>}
StatusVals == {200, 429, 503, 502}
\* random.uniform(0.1, 0.5), in ms: the two ends
JitterVals == {100, 500}

\* no finite deadline, wait or upstream call of a request reaches beyond it
Horizon == MaxArrive + MaxWait + MaxNeg + MaxRtt
LongHorizon == LongWait + MaxNeg + MaxRtt + 1
LogHorizon == IF Horizon >= LongHorizon THEN Horizon ELSE LongHorizon
\* long enough for a connection to be evicted twice
IdleHorizon == 2 * IDLE_EVICT + 4
\* seconds of traffic after each rest
BusyTicks == 2

\* ------------------------------------------------------------ arithmetic
Min(a, b) == IF a <= b THEN a ELSE b
Max(a, b) == IF a >= b THEN a ELSE b
CeilDiv(a, b) == (a + b - 1) \div b
\* n += 1
Count(n) == IF n < MaxCount THEN n + 1 ELSE n

\* Python round(): halves go to the even integer; w in ms, result in s
PyRound(w) ==
    LET q == w \div 1000
        m == w % 1000
    IN  IF m < 500 THEN q
        ELSE IF m > 500 THEN q + 1
        ELSE IF q % 2 = 0 THEN q ELSE q + 1

\* ------------------------------------------------------------ TokenBucket
NewBucket(rate, cap, t) ==
    [rate |-> rate, cap |-> cap, tokens |-> cap, last |-> t, paused_until |-> 0]

\* a refill that forgets the capacity
RefillNoCap(b, t) ==
    IF t < b.paused_until
    THEN [b EXCEPT !.last = t]
    ELSE LET elapsed == t - b.last
         IN  IF elapsed > 0
             THEN [b EXCEPT !.tokens = b.tokens + b.rate * elapsed, !.last = t]
             ELSE b

Refill(b, t) ==
    IF t < b.paused_until
    THEN [b EXCEPT !.last = t]
    ELSE LET elapsed == t - b.last
         IN  IF elapsed > 0
             THEN [b EXCEPT !.tokens = Min(b.cap, b.tokens + b.rate * elapsed),
                            !.last = t]
             ELSE b

\* result: the bucket after the call, accepted?, wait in ms
\* a take that does not look at the pause
TakeIgnoringPause(b, t) ==
    LET r == Refill(b, t)
    IN  IF r.tokens >= COST
        THEN [b |-> [r EXCEPT !.tokens = @ - COST], ok |-> TRUE, wait |-> 0]
        ELSE [b |-> r, ok |-> FALSE,
              wait |-> IF r.rate > 0 THEN CeilDiv((COST - r.tokens) * 1000, r.rate)
                       ELSE 2000000000]

Take(b, t) ==
    LET r == Refill(b, t)
    IN  IF t < r.paused_until
        THEN [b |-> r, ok |-> FALSE, wait |-> (r.paused_until - t) * 1000]
        ELSE IF r.tokens >= COST
        THEN [b |-> [r EXCEPT !.tokens = @ - COST], ok |-> TRUE, wait |-> 0]
        ELSE [b |-> r, ok |-> FALSE,
              wait |-> IF r.rate > 0
                       THEN CeilDiv((COST - r.tokens) * 1000, r.rate)
                       ELSE 2000000000]

\* max(1e-9, rate): below the model's resolution, so the smallest rate is 1
SetRateCap(b, rate, cap, t) ==
    LET r == Refill(b, t)
    IN  [r EXCEPT !.rate = Max(1, rate),
                  !.cap = IF cap # None THEN Max(TokenUnit, cap) ELSE @]

\* a pause that also stops the refill by re-rating the bucket
PauseByRate(b, seconds, t) ==
    [b EXCEPT !.paused_until = Max(@, t + Max(0, seconds)), !.rate = DORMANT_RATE]

\* a pause that overwrites the deadline instead of extending it
PauseOverwrite(b, seconds, t) ==
    [b EXCEPT !.paused_until = t + Max(0, seconds)]

Pause(b, seconds, t) ==
    [b EXCEPT !.paused_until = Max(@, t + Max(0, seconds))]

\* ------------------------------------------------------------ ConnManager
MarkActive(cl, ls, cid, t) ==
    [last_seen |-> [c \in DOMAIN ls \cup {cid} |-> IF c = cid THEN t ELSE ls[c]],
     clients |-> IF cid \in DOMAIN cl
                 THEN cl
                 ELSE [c \in DOMAIN cl \cup {cid} |->
                          IF c = cid THEN NewBucket(DORMANT_RATE, TokenUnit, t)
                          ELSE cl[c]]]

\* the activity window with its end excluded
ActivesStrict(ls, t) == {c \in DOMAIN ls : t - ls[c] < ACTIVE_WINDOW}

Actives(ls, t) == {c \in DOMAIN ls : t - ls[c] <= ACTIVE_WINDOW}

RateEach(n) == ((LIMIT_PER_MIN * TokenUnit) \div 60) \div n

CapEach(rate_each) == Max(TokenUnit, rate_each * BURST_WINDOW)

\* an eviction that already strikes at the threshold
EvictedAtThreshold(cl, ls, actives, t) ==
    {c \in DOMAIN cl : c \notin actives
                       /\ t - (IF c \in DOMAIN ls THEN ls[c] ELSE 0) >= IDLE_EVICT}

Evicted(cl, ls, actives, t) ==
    {c \in DOMAIN cl : c \notin actives
                       /\ t - (IF c \in DOMAIN ls THEN ls[c] ELSE 0) > IDLE_EVICT}

PruneAndComputeRates(cl, ls, t) ==
    LET actives == Actives(ls, t)
        n == Max(1, Cardinality(actives))
        rate_each == RateEach(n)
        cap_each == CapEach(rate_each)
        gone == Evicted(cl, ls, actives, t)
    IN  [clients |-> [c \in DOMAIN cl \ gone |->
                         IF c \in actives
                         THEN SetRateCap(cl[c], rate_each, cap_each, t)
                         ELSE SetRateCap(cl[c], DORMANT_RATE, TokenUnit, t)],
         last_seen |-> [c \in DOMAIN ls \ gone |-> ls[c]],
         actives |-> actives,
         rate_each |-> rate_each]

\* ------------------------------------------------------------ helpers
\* _prefer_wait under a given PREFER_WAIT_DEFAULT: the float after "wait=",
\* the default when the header is absent or float() raises
PreferWaitOr(pref, dflt) ==
    IF pref = None \/ pref = NON_NUMERIC THEN dflt ELSE pref

PreferWait(pref) == PreferWaitOr(pref, PREFER_WAIT_DEFAULT)

\* float(v) succeeds on the header value v
Parses(v) == v # None /\ v # NON_NUMERIC

\* the first header that is present and parses wins; None when there is none
RetryAfterSeconds(h) ==
    IF Parses(h[1]) THEN h[1]
    ELSE IF Parses(h[2]) THEN h[2]
    ELSE IF Parses(h[3]) THEN h[3]
    ELSE IF Parses(h[4]) THEN h[4]
    ELSE None


\* `x or fallback': None and 0.0 are both falsy
RetryAfterOrFallback(h, sc) ==
    LET x == RetryAfterSeconds(h)
    IN  IF x = None \/ x = 0 THEN FALLBACK_RA(sc) ELSE x

\* a local wait decision that does not compare with the deadline
LocalMayWaitAnyDeadline(deadline_ts, wait, t) ==
    deadline_ts # None /\ wait > 0

\* local gate: may the request sleep `wait' ms and try again?
LocalMayWait(deadline_ts, wait, t) ==
    deadline_ts # None /\ wait > 0 /\ t * 1000 + wait <= deadline_ts * 1000

\* a retry decision that refuses a wait ending exactly at the deadline
RateLimitMayRetryStrict(deadline_ts, ra, t) ==
    deadline_ts # None /\ t + ra < deadline_ts

\* upstream 429/503: may the request sleep ra seconds and forward again?
RateLimitMayRetry(deadline_ts, ra, t) ==
    deadline_ts # None /\ t + ra <= deadline_ts

\* a backoff wait without its ceiling
TransientWaitNoCap(backoff, jitter) == backoff * 1000 + jitter

\* upstream 500/502/504: wait in ms for the current backoff, and the decision
TransientWait(backoff, jitter) == Min(backoff * 1000 + jitter, 8000)

TransientMayRetry(deadline_ts, wait, t) ==
    deadline_ts # None /\ t * 1000 + wait <= deadline_ts * 1000

\* asyncio.sleep(d): d in ms; a delay <= 0 only yields to the event loop
SleepUntil(t, d) == t + Max(0, CeilDiv(d, 1000))

\* ------------------------------------------------------------ state
\* now: time.monotonic(); clients, last_seen, global_bucket: the fields of RL;
\* req: the locals of each running handler and the response it returned;
\* takeLog: per second, how many take() calls on the global bucket were accepted
VARIABLES now, clients, last_seen, global_bucket, req, takeLog

\* The upstream mock (limited_mock.py) is a process of its own.  mnow: its
\* time.monotonic(), in ticks of 1/MockUnit second; store: limiter.store;
\* accepted: per key, the timestamps of the calls it accepted; reply: what the
\* last call of check_and_commit returned
VARIABLES mnow, store, accepted, reply

mock == <<mnow, store, accepted, reply>>

vars == <<now, clients, last_seen, global_bucket, req, takeLog, mock>>

\* ------------------------------------------------------------ SlidingWindowLimiter
\* ticks of the mock's clock per second
MockUnit == 2
\* windows = ((limit, seconds), ...): two windows, the second a little wider
Windows == <<[limit |-> MockLimit, win |-> MockWin],
             [limit |-> MockLimit + 1, win |-> MockWin + 1]>>
\* client_id(request)
MockKeys == {"key:a", "key:b"}

MaxOf(S) == CHOOSE x \in S : \A y \in S : y <= x

\* an expiry that keeps the entry that is exactly one window old
RECURSIVE PopExpiredStrict(_, _)
PopExpiredStrict(q, cutoff) ==
    IF q # <<>> /\ Head(q) < cutoff THEN PopExpiredStrict(Tail(q), cutoff) ELSE q

\* while q and q[0] <= cutoff: q.popleft()
RECURSIVE PopExpired(_, _)
PopExpired(q, cutoff) ==
    IF q # <<>> /\ Head(q) <= cutoff THEN PopExpired(Tail(q), cutoff) ELSE q

\* int(ceil(win_len - (now - q[0]))), in seconds, for a queue whose head is q0
ResetOf(i, q0, t) == CeilDiv(Windows[i].win * MockUnit - (t - q0), MockUnit)

\* check_and_commit(key) at time t on the store st: the store afterwards, the
\* verdict, and the Retry-After, RateLimit-Remaining and RateLimit-Reset headers
CheckAndCommit(st, key, t) ==
    LET deques == IF key \in DOMAIN st THEN st[key]
                  ELSE [i \in DOMAIN Windows |-> <<>>]
        pruned == [i \in DOMAIN Windows |->
                      PopExpired(deques[i], t - Windows[i].win * MockUnit)]
        remaining == [i \in DOMAIN Windows |-> Windows[i].limit - Len(pruned[i])]
        resets == [i \in DOMAIN Windows |->
                      IF Len(pruned[i]) = 0 THEN 0
                      ELSE ResetOf(i, Head(pruned[i]), t)]
        blocked == {i \in DOMAIN Windows : remaining[i] <= 0}
        after == [i \in DOMAIN Windows |-> Append(pruned[i], t)]
        remaining_after == [i \in DOMAIN Windows |-> Windows[i].limit - Len(after[i])]
        resets_after == [i \in DOMAIN Windows |-> ResetOf(i, Head(after[i]), t)]
        k == CHOOSE i \in DOMAIN Windows :
                 /\ \A j \in DOMAIN Windows : remaining_after[i] <= remaining_after[j]
                 /\ \A j \in 1..(i - 1) : remaining_after[j] > remaining_after[i]
        put(d) == [c \in DOMAIN st \cup {key} |-> IF c = key THEN d ELSE st[c]]
    IN  IF blocked # {}
        THEN LET retry_after == MaxOf({resets[i] : i \in blocked})
             IN  [store |-> put(pruned), ok |-> FALSE, retry_after |-> retry_after,
                  remaining |-> 0, reset |-> retry_after]
        ELSE [store |-> put(after), ok |-> TRUE, retry_after |-> None,
              remaining |-> remaining_after[k], reset |-> resets_after[k]]

\* limiter = SlidingWindowLimiter(...): nothing stored, nothing answered yet
MockInit ==
    /\ mnow = 0
    /\ store = [c \in {} |-> 0]
    /\ accepted = [c \in MockKeys |-> <<>>]
    /\ reply = [key |-> "-", ok |-> TRUE, retry_after |-> None,
                remaining |-> 0, reset |-> 0]

\* ratelimit_middleware: a request of client key reaches the mock
MockCall(key) ==
    /\ LET res == CheckAndCommit(store, key, mnow)
       IN  /\ store' = res.store
           /\ accepted' = IF res.ok THEN [accepted EXCEPT ![key] = Append(@, mnow)]
                           ELSE accepted
           /\ reply' = [key |-> key, ok |-> res.ok,
                        retry_after |-> res.retry_after,
                        remaining |-> res.remaining, reset |-> res.reset]
    /\ UNCHANGED <<mnow, now, clients, last_seen, global_bucket, req, takeLog>>

\* one tick of the mock's clock
MockTick ==
    /\ mnow < MockHorizon * MockUnit
    /\ mnow' = mnow + 1
    /\ UNCHANGED <<store, accepted, reply, now, clients, last_seen, global_bucket,
                   req, takeLog>>

NextMock ==
    \/ \E key \in MockKeys : MockCall(key)
    \/ MockTick

IdleReq ==
    [pc |-> "idle", cid |-> "-", prefer |-> None, prefer_wait |-> 0,
     deadline_ts |-> None,
     arrived |-> None, n_actives |-> 0, rate_each |-> 0,
     attempts |-> 0, local_waits |-> 0, upstream_retries |-> 0, backoff |-> 1,
     ra |-> None, got |-> <<0, NoHeaders>>, wake |-> 0, sent_at |-> None, calls |-> 0,
     status |-> 0, detail |-> "-", wait_required |-> 0, retry_after |-> 0,
     done_at |-> None]

Init ==
    /\ now = 0
    /\ clients = [c \in {} |-> 0]
    /\ last_seen = [c \in {} |-> 0]
    /\ global_bucket = NewBucket(RATE_G, CAP_G, 0)
    /\ req = [r \in Reqs |-> IdleReq]
    /\ takeLog = [t \in 0..LogHorizon |-> 0]
    /\ MockInit

\* ------------------------------------------------------------ proxy
\* the handler of request r is in one of its asyncio.sleep calls
Sleeping(r) == req[r].pc \in {"sleep_local", "sleep_rl", "sleep_5xx"}

\* The record of a request that returns its response now.
Finish(rq, sc, detail) ==
    [rq EXCEPT !.pc = "done", !.status = sc, !.detail = detail, !.done_at = now]

\* One iteration of the local admission loop for request r, whose record is rq,
\* on the registry (cl, ls).  RL.get_bucket raises KeyError for an id that is
\* no longer registered; the middleware answers 500.
LocalGate(r, rq, cl, ls) ==
    LET tg == Take(global_bucket, now)
        known == rq.cid \in DOMAIN cl
        tc == IF known THEN Take(cl[rq.cid], now)
              ELSE [b |-> tg.b, ok |-> FALSE, wait |-> 0]
        wait == Max(tg.wait, tc.wait)
        att == Count(rq.attempts)
    IN  /\ global_bucket' = tg.b
        /\ clients' = IF known THEN [cl EXCEPT ![rq.cid] = tc.b] ELSE cl
        /\ last_seen' = ls
        /\ takeLog' = IF tg.ok THEN [takeLog EXCEPT ![now] = @ + 1] ELSE takeLog
        /\ req' = [req EXCEPT ![r] =
              IF ~known
              THEN Finish([rq EXCEPT !.attempts = att], 500, "internal_error")
              ELSE IF tg.ok /\ tc.ok
              THEN [rq EXCEPT !.pc = "upstream", !.attempts = att,
                              !.sent_at = now, !.calls = 1]
              ELSE IF LocalMayWait(rq.deadline_ts, wait, now)
              THEN [rq EXCEPT !.pc = "sleep_local", !.attempts = att,
                              !.local_waits = Count(@),
                              !.wake = SleepUntil(now, wait)]
              ELSE Finish([rq EXCEPT !.attempts = att,
                                     !.wait_required = wait,
                                     !.retry_after = Max(0, PyRound(wait))],
                          429, "rate_limited_local")]
        /\ UNCHANGED <<now, mock>>

\* A request arrives at a proxy configured with PREFER_WAIT_DEFAULT = dflt:
\* identification, mark_active, prune_and_compute_rates, deadline, and the
\* first iteration of the local gate.
ArriveWith(r, cid, pref, dflt) ==
    /\ req[r].pc = "idle"
    /\ LET ma == MarkActive(clients, last_seen, cid, now)
           pr == PruneAndComputeRates(ma.clients, ma.last_seen, now)
           pw == PreferWaitOr(pref, dflt)
           rq == [req[r] EXCEPT !.cid = cid, !.prefer = pref, !.prefer_wait = pw,
                                !.deadline_ts = IF pw > 0 THEN now + pw ELSE None,
                                !.arrived = now,
                                !.n_actives = Cardinality(pr.actives),
                                !.rate_each = pr.rate_each]
       IN  LocalGate(r, rq, pr.clients, pr.last_seen)

Arrive(r, cid, pref) == ArriveWith(r, cid, pref, PREFER_WAIT_DEFAULT)

\* The local sleep of request r is over: next iteration of the gate.
WakeLocal(r) ==
    /\ req[r].pc = "sleep_local"
    /\ now >= req[r].wake
    /\ LocalGate(r, req[r], clients, last_seen)

\* What the upstream loop does with a response of status sc and reset headers h.
\* noted is what is kept of the response itself (r.status_code, r.headers).
AnswerNoting(r, sc, h, jitter, noted) ==
    /\ LET rq == [req[r] EXCEPT !.got = noted]
           ra == RetryAfterOrFallback(h, sc)
           wait == TransientWait(rq.backoff, jitter)
       IN  IF sc \in RATE_LIMIT_STATUSES
           THEN /\ global_bucket' = Pause(global_bucket, ra, now)
                /\ req' = [req EXCEPT ![r] =
                      IF RateLimitMayRetry(rq.deadline_ts, ra, now)
                      THEN [rq EXCEPT !.pc = "sleep_rl", !.ra = ra,
                                      !.upstream_retries = Count(@),
                                      !.wake = SleepUntil(now, ra * 1000)]
                      ELSE Finish([rq EXCEPT !.ra = ra], sc, "upstream_rl")]
           ELSE IF sc \in TRANSIENT_5XX
           THEN /\ global_bucket' = global_bucket
                /\ req' = [req EXCEPT ![r] =
                      IF TransientMayRetry(rq.deadline_ts, wait, now)
                      THEN [rq EXCEPT !.pc = "sleep_5xx",
                                      !.upstream_retries = Count(@),
                                      !.wake = SleepUntil(now, wait)]
                      ELSE Finish(rq, sc, "upstream_5xx")]
           ELSE /\ global_bucket' = global_bucket
                /\ req' = [req EXCEPT ![r] = Finish(rq, sc, "upstream")]
    /\ UNCHANGED <<now, clients, last_seen, takeLog, mock>>

Answer(r, sc, h, jitter) == AnswerNoting(r, sc, h, jitter, <<0, NoHeaders>>)

\* The upstream answers request r at least one second after the call.
Respond(r, sc, h, jitter) ==
    /\ req[r].pc = "upstream"
    /\ now - req[r].sent_at >= 1
    /\ Answer(r, sc, h, jitter)

\* The sleep after an upstream 429/503 is over: `continue' forwards again.
RetryRateLimited(r) ==
    /\ req[r].pc = "sleep_rl"
    /\ now >= req[r].wake
    /\ req' = [req EXCEPT ![r].pc = "upstream", ![r].sent_at = now,
                          ![r].calls = Count(@)]
    /\ UNCHANGED <<now, clients, last_seen, global_bucket, takeLog, mock>>

\* The backoff sleep after a transient 5xx is over: double, forward again.
RetryTransient(r) ==
    /\ req[r].pc = "sleep_5xx"
    /\ now >= req[r].wake
    /\ req' = [req EXCEPT ![r].pc = "upstream", ![r].sent_at = now,
                          ![r].calls = Count(@),
                          ![r].backoff = Min(@ * 2, 8)]
    /\ UNCHANGED <<now, clients, last_seen, global_bucket, takeLog, mock>>

\* One second passes, up to time h.  A sleeper that is due runs first, and an
\* upstream call takes at most MaxRtt seconds.
Advance(h) ==
    /\ now < h
    /\ \A r \in Reqs :
          /\ req[r].pc \in {"sleep_local", "sleep_rl", "sleep_5xx"} => req[r].wake > now
          /\ req[r].pc = "upstream" => now - req[r].sent_at < MaxRtt
    /\ now' = now + 1
    /\ UNCHANGED <<clients, last_seen, global_bucket, req, takeLog, mock>>

\* Time passes while a request is running or the second one may still arrive.
Tick ==
    /\ \E r \in Reqs : req[r].pc \notin {"idle", "done"}
                       \/ (req[r].pc = "idle" /\ now < MaxArrive)
    /\ Advance(Horizon)

RespondAny(r) ==
    \/ \E sc \in StatusVals \cap RATE_LIMIT_STATUSES, h \in HeaderChoices :
          Respond(r, sc, h, 100)
    \/ \E sc \in StatusVals \cap TRANSIENT_5XX, j \in JitterVals :
          Respond(r, sc, NoHeaders, j)
    \/ \E sc \in StatusVals \ (RATE_LIMIT_STATUSES \cup TRANSIENT_5XX) :
          Respond(r, sc, NoHeaders, 100)

\* The first request arrives at time 0 on c1 (until it does nothing changes, and
\* the ids are interchangeable); the second at any time up to MaxArrive.
Next ==
    \/ \E pref \in PreferVals : now = 0 /\ Arrive(1, "c1", pref)
    \/ \E cid \in Conns, pref \in PreferVals :
          req[1].pc # "idle" /\ now <= MaxArrive /\ Arrive(2, cid, pref)
    \/ \E r \in Reqs : WakeLocal(r)
    \/ \E r \in Reqs : RespondAny(r)
    \/ \E r \in Reqs : RetryRateLimited(r)
    \/ \E r \in Reqs : RetryTransient(r)
    \/ Tick

Spec == Init /\ [][Next]_vars

\* The same program under the scheduling the event loop and the claim's
\* assumptions give: time advances, a due task runs, every upstream call returns.
FairSpec ==
    /\ Spec
    /\ WF_vars(Tick)
    /\ \A r \in Reqs :
          /\ WF_vars(WakeLocal(r))
          /\ WF_vars(RespondAny(r))
          /\ WF_vars(RetryRateLimited(r))
          /\ WF_vars(RetryTransient(r))

\* ------------------------------------------------------------ the upstream mock alone
\* Requests of two clients reach the mock at any time, any number per tick.
SpecMock == Init /\ [][NextMock]_vars

\* ------------------------------------------------------------ the global bucket alone
\* Any number of handlers run line 361 (take on the global bucket) and line 405
\* (pause) in any order: every sequence of calls the proxy can make, and more.
PauseVals == {0 - MaxNeg, 1, 2}

GlobalTake ==
    /\ takeLog[now] < MaxTakes
    /\ LET tg == Take(global_bucket, now)
       IN  /\ global_bucket' = tg.b
           /\ takeLog' = IF tg.ok THEN [takeLog EXCEPT ![now] = @ + 1] ELSE takeLog
    /\ UNCHANGED <<now, clients, last_seen, req, mock>>

GlobalPause(ra) ==
    /\ global_bucket' = Pause(global_bucket, ra, now)
    /\ UNCHANGED <<now, clients, last_seen, req, takeLog, mock>>

BucketTick ==
    /\ now < BucketHorizon
    /\ now' = now + 1
    /\ UNCHANGED <<clients, last_seen, global_bucket, req, takeLog, mock>>

NextBucket ==
    \/ GlobalTake
    \/ \E ra \in PauseVals : GlobalPause(ra)
    \/ BucketTick

SpecBucket == Init /\ [][NextBucket]_vars

\* ------------------------------------------------------------ one pause of the global bucket
\* As above, but pause() is called at time 0 only: every pause covers
\* [0, paused_until], and the bucket was last refilled at its start.
NextPause ==
    \/ GlobalTake
    \/ \E ra \in PauseVals : now = 0 /\ GlobalPause(ra)
    \/ BucketTick

SpecPause == Init /\ [][NextPause]_vars

\* ------------------------------------------------------------ a rate-limiting upstream
\* Two requests with Prefer: wait=LongWait on two connections, and an upstream
\* that answers every call with 429 and Retry-After: -MaxNeg.
OverloadConn(r) == IF r = 1 THEN "c1" ELSE "c2"

NextOverload ==
    \/ \E r \in Reqs : now = 0 /\ Arrive(r, OverloadConn(r), LongWait)
    \/ \E r \in Reqs : Respond(r, 429, <<0 - MaxNeg, None, None, None>>, 100)
    \/ \E r \in Reqs : RetryRateLimited(r)
    \/ Advance(LongHorizon)

SpecOverload == Init /\ [][NextOverload]_vars

\* ------------------------------------------------------------ a failing upstream
\* The upstream call of request r raises (connect, read or write error).  proxy
\* has no handler around it: the exception reaches the middleware, which
\* answers 500 internal_error.
UpstreamFails(r) ==
    /\ req[r].pc = "upstream"
    /\ req' = [req EXCEPT ![r] = Finish(req[r], 500, "internal_error")]
    /\ UNCHANGED <<now, clients, last_seen, global_bucket, takeLog, mock>>

\* Two requests with Prefer: wait=LongWait on two connections, the second up to
\* MaxArrive seconds after the first, and an upstream that answers 502 or 200,
\* or cannot be reached.
NextTransient ==
    \/ now = 0 /\ Arrive(1, OverloadConn(1), LongWait)
    \/ req[1].pc # "idle" /\ now <= MaxArrive /\ Arrive(2, OverloadConn(2), LongWait)
    \/ \E r \in Reqs, j \in JitterVals : Respond(r, 502, NoHeaders, j)
    \/ \E r \in Reqs : Respond(r, 200, NoHeaders, 100)
    \/ \E r \in Reqs : UpstreamFails(r)
    \/ \E r \in Reqs : RetryTransient(r)
    \/ Advance(LongHorizon)

SpecTransient == Init /\ [][NextTransient]_vars

\* ------------------------------------------------------------ a configured default wait
\* The proxy runs with PREFER_WAIT_DEFAULT = POSITIVE_DEFAULT, the requests carry
\* Prefer headers of every kind, the upstream answers 200.
NextPrefer ==
    \/ \E pref \in PreferHeaders :
          now = 0 /\ ArriveWith(1, "c1", pref, POSITIVE_DEFAULT)
    \/ \E cid \in Conns, pref \in PreferHeaders :
          /\ req[1].pc # "idle" /\ now <= MaxArrive
          /\ ArriveWith(2, cid, pref, POSITIVE_DEFAULT)
    \/ \E r \in Reqs : WakeLocal(r)
    \/ \E r \in Reqs : Respond(r, 200, NoHeaders, 100)
    \/ Tick

SpecPrefer == Init /\ [][NextPrefer]_vars

\* ------------------------------------------------------------ one request after another
\* The handler of request r has returned; r stands for the next request.
Recycle(r) ==
    /\ req[r].pc = "done"
    /\ req' = [req EXCEPT ![r] = IdleReq]
    /\ UNCHANGED <<now, clients, last_seen, global_bucket, takeLog, mock>>

\* Requests without a Prefer header keep arriving on either connection, up to
\* two at a time, until MaxArrive; the upstream answers 200.
NextSequence ==
    \/ \E r \in Reqs, cid \in Conns : now <= MaxArrive /\ Arrive(r, cid, None)
    \/ \E r \in Reqs : Respond(r, 200, NoHeaders, 100)
    \/ \E r \in Reqs : Recycle(r)
    \/ Advance(Horizon)

SpecSequence == Init /\ [][NextSequence]_vars

\* ------------------------------------------------------------ reset headers of every kind
\* The upstream answers 429 or 503 with any combination of the four reset
\* headers, or 200; the response is kept with the request.
RespondWith(r, sc, h) ==
    /\ req[r].pc = "upstream"
    /\ now - req[r].sent_at >= 1
    /\ AnswerNoting(r, sc, h, 100, <<sc, h>>)

NextHeaders ==
    \/ now = 0 /\ Arrive(1, "c1", MaxWait)
    \/ \E pref \in PreferVals :
          req[1].pc # "idle" /\ now = 0 /\ Arrive(2, "c1", pref)
    \/ \E r \in Reqs : WakeLocal(r)
    \/ \E r \in Reqs, sc \in RATE_LIMIT_STATUSES, h \in AllHeaders :
          RespondWith(r, sc, h)
    \/ \E r \in Reqs : RespondWith(r, 200, NoHeaders)
    \/ \E r \in Reqs : RetryRateLimited(r)
    \/ Tick

SpecHeaders == Init /\ [][NextHeaders]_vars

\* ------------------------------------------------------------ long idle times
\* Requests without a Prefer header arrive one at a time on either connection, the first on c1
\* at time 0; the upstream answers 200; between requests the proxy may rest for
\* a second less or a second more than the eviction threshold, and traffic lasts BusyTicks seconds
\* after a rest.
InitIdle ==
    /\ now = 0
    /\ clients = [c \in {} |-> 0]
    /\ last_seen = [c \in {} |-> 0]
    /\ global_bucket = NewBucket(RATE_G, CAP_G, 0)
    /\ req = [r \in Reqs |-> IdleReq]
    /\ takeLog = [t \in 0..IdleHorizon |-> 0]
    /\ MockInit

Rest(d) ==
    /\ \A r \in Reqs : req[r].pc \in {"idle", "done"}
    /\ DOMAIN clients # {}
    /\ now + d <= IdleHorizon
    /\ now' = now + d
    /\ UNCHANGED <<clients, last_seen, global_bucket, req, takeLog, mock>>

Busy == now % IDLE_EVICT < BusyTicks

NextIdle ==
    \/ now = 0 /\ DOMAIN clients = {} /\ Arrive(1, "c1", None)
    \/ \E r \in Reqs, cid \in Conns :
          /\ DOMAIN clients # {} /\ Busy
          /\ \A q \in Reqs : req[q].pc \in {"idle", "done"}
          /\ Arrive(r, cid, None)
    \/ \E r \in Reqs : Respond(r, 200, NoHeaders, 100)
    \/ \E r \in Reqs : Recycle(r)
    \/ (\E r \in Reqs : req[r].pc = "upstream") /\ Busy /\ Advance(IdleHorizon)
    \/ \E d \in {IDLE_EVICT - 1, IDLE_EVICT + 1} : Rest(d)

SpecIdle == InitIdle /\ [][NextIdle]_vars

\* ------------------------------------------------------------ a pause longer than the activity window
\* the Retry-After the upstream sends with its 429
LongPause == ACTIVE_WINDOW + 2

\* Requests keep arriving on either connection, those of slot 1 without Prefer,
\* those of slot 2 with Prefer: wait=LongWait, the first on c1 at time 0, the
\* last no later than LongPause; the upstream answers 200, or 429 with
\* Retry-After: LongPause.
QuenchPrefer(r) == IF r = 1 THEN None ELSE LongWait

NextQuench ==
    \/ now = 0 /\ DOMAIN clients = {} /\ Arrive(1, "c1", None)
    \/ \E r \in Reqs, cid \in Conns :
          DOMAIN clients # {} /\ now <= LongPause /\ Arrive(r, cid, QuenchPrefer(r))
    \/ \E r \in Reqs : WakeLocal(r)
    \/ \E r \in Reqs : Respond(r, 429, <<LongPause, None, None, None>>, 100)
    \/ \E r \in Reqs : Respond(r, 200, NoHeaders, 100)
    \/ \E r \in Reqs : RetryRateLimited(r)
    \/ \E r \in Reqs : Recycle(r)
    \/ Advance(LongPause + 2)

SpecQuench == Init /\ [][NextQuench]_vars

\* ------------------------------------------------------------ cancelled requests
\* a cancellation that also forgets the connection of the request
CancelUnregisters(r) ==
    /\ Sleeping(r) \/ req[r].pc = "upstream"
    /\ req' = [req EXCEPT ![r] = Finish(req[r], 0, "cancelled")]
    /\ clients' = [c \in DOMAIN clients \ {req[r].cid} |-> clients[c]]
    /\ UNCHANGED <<now, last_seen, global_bucket, takeLog, mock>>

\* The client of request r goes away while the handler is suspended at an await
\* (a sleep, the upstream call or the read of its body): CancelledError ends
\* the handler there; proxy has no handler for it and no cleanup.
Cancel(r) ==
    /\ Sleeping(r) \/ req[r].pc = "upstream"
    /\ req' = [req EXCEPT ![r] = Finish(req[r], 0, "cancelled")]
    /\ UNCHANGED <<now, clients, last_seen, global_bucket, takeLog, mock>>

\* The traffic of SpecQuench within the activity window, with requests that
\* may be cancelled.
NextCancel ==
    \/ now = 0 /\ DOMAIN clients = {} /\ Arrive(1, "c1", None)
    \/ \E r \in Reqs, cid \in Conns :
          /\ DOMAIN clients # {} /\ now < ACTIVE_WINDOW
          /\ Arrive(r, cid, QuenchPrefer(r))
    \/ \E r \in Reqs : WakeLocal(r)
    \/ \E r \in Reqs : Respond(r, 429, <<LongPause, None, None, None>>, 100)
    \/ \E r \in Reqs : Respond(r, 200, NoHeaders, 100)
    \/ \E r \in Reqs : RetryRateLimited(r)
    \/ \E r \in Reqs : Cancel(r)
    \/ \E r \in Reqs : Recycle(r)
    \/ Advance(LongPause + 2)

SpecCancel == Init /\ [][NextCancel]_vars

\* ------------------------------------------------------------ an upstream that never relents
\* The upstream answers every call with 429 and Retry-After: -inf.  Time stops at
\* Horizon, which stands for every later time: the upstream goes on answering.
RespondForever(r) ==
    /\ req[r].pc = "upstream"
    /\ now - req[r].sent_at >= 1 \/ now = Horizon
    /\ Answer(r, 429, <<NEG_INF, None, None, None>>, 100)

NextForever ==
    \/ now = 0 /\ Arrive(1, "c1", MaxWait)
    \/ \E cid \in Conns, pref \in PreferVals :
          req[1].pc # "idle" /\ now <= MaxArrive /\ Arrive(2, cid, pref)
    \/ \E r \in Reqs : WakeLocal(r)
    \/ \E r \in Reqs : RespondForever(r)
    \/ \E r \in Reqs : RetryRateLimited(r)
    \/ Tick

SpecForever == Init /\ [][NextForever]_vars

\* time advances, a due task runs, every upstream call returns
FairForever ==
    /\ SpecForever
    /\ WF_vars(Tick)
    /\ \A r \in Reqs :
          /\ WF_vars(WakeLocal(r))
          /\ WF_vars(RespondForever(r))
          /\ WF_vars(RetryRateLimited(r))

\* ------------------------------------------------------------ claims
AllBuckets == {global_bucket} \cup {clients[c] : c \in DOMAIN clients}

\* request r starts an upstream call in this step
Forwards(r) == req[r].pc # "upstream" /\ req'[r].pc = "upstream"

\* C1: every bucket, global or per connection, holds 0 <= tokens <= cap in every
\* reachable state, also right after set_rate_cap lowered the capacity.
C1_TokensWithinCap ==
    \A b \in AllBuckets : 0 <= b.tokens /\ b.tokens <= b.cap

\* accepted take() calls on the global bucket with call time in [t0, t1]
RECURSIVE TakesIn(_, _)
TakesIn(t0, t1) == IF t0 > t1 THEN 0 ELSE takeLog[t0] + TakesIn(t0 + 1, t1)

\* C2: in every interval [t0, t1] the global bucket accepts at most
\* cap + rate * (t1 - t0) take() calls, whatever the pauses.
C2_RateRespect ==
    \A t0 \in 0..now : \A t1 \in t0..now :
        TakesIn(t0, t1) * TokenUnit <= CAP_G + RATE_G * (t1 - t0)

\* C2 witness: the bound is reached over an interval of positive length.
C2_BoundReached ==
    \E t0 \in 0..now : \E t1 \in (t0 + 1)..now :
        /\ takeLog[t1] > 0
        /\ TakesIn(t0, t1) * TokenUnit = CAP_G + RATE_G * (t1 - t0)

\* C3: the upstream calls of all requests (first forwards and re-forwards) within
\* 60 seconds never exceed LIMIT_PER_MIN.
C3_UpstreamWithinLimit ==
    now < 60 => req[1].calls + req[2].calls <= LIMIT_PER_MIN

\* C4: no upstream call is started while the global pause is in effect.
C4_NoForwardWhilePaused ==
    [][\A r \in Reqs : Forwards(r) => now' >= global_bucket'.paused_until]_vars

\* the upstream answered request r with 429/503 in this step
RateLimited(r) ==
    /\ req[r].pc = "upstream"
    /\ req'[r].pc = "sleep_rl" \/ req'[r].detail = "upstream_rl"

\* C5: paused_until of the global bucket never decreases, and a 429/503 with wait
\* ra leaves it at max(previous, now + max(0, ra)).
C5_PauseMonotone ==
    [][/\ global_bucket'.paused_until >= global_bucket.paused_until
       /\ \A r \in Reqs : RateLimited(r) =>
             global_bucket'.paused_until
                = Max(global_bucket.paused_until, now + Max(0, req'[r].ra))]_vars

\* C5 witness: a request was rate-limited with a wait that ends before the pause
\* already in force, and that pause is still in force.
C5_LongerPauseKept ==
    \E r \in Reqs : /\ req[r].pc = "sleep_rl"
                    /\ req[r].ra > 0
                    /\ req[r].wake < global_bucket.paused_until

\* the connections seen within the activity window
ActiveNow == {c \in DOMAIN last_seen : now - last_seen[c] <= ACTIVE_WINDOW}

\* prune_and_compute_rates ran at the current time
JustPruned == \E r \in Reqs : req[r].arrived = now

\* C6: right after prune_and_compute_rates with N active connections each active
\* bucket has rate (L/60)/N and cap max(1, rate * BURST_WINDOW); the rates sum to L/60.
C6_FairApportionment ==
    JustPruned =>
        LET n == Cardinality(ActiveNow)
        IN  /\ n >= 1
            /\ \A c \in ActiveNow :
                  /\ c \in DOMAIN clients
                  /\ clients[c].rate * n * 60 = LIMIT_PER_MIN * TokenUnit
                  /\ clients[c].cap = Max(TokenUnit, clients[c].rate * BURST_WINDOW)

\* C6 witness: two connections are active right after a rebalance.
C6_TwoActive == JustPruned /\ Cardinality(ActiveNow) = 2

\* C7: with a deadline, every sleep ends by the deadline, no upstream call starts
\* after it, and the response comes at most one upstream call later.
C7_DeadlineHonoured ==
    \A r \in Reqs : req[r].deadline_ts # None =>
        /\ Sleeping(r) => req[r].wake <= req[r].deadline_ts
        /\ req[r].pc = "upstream" => req[r].sent_at <= req[r].deadline_ts
        /\ req[r].pc = "done" => req[r].done_at <= req[r].deadline_ts + MaxRtt

\* C8: every request that arrived eventually returns a response, and returns
\* only one: its record never changes afterwards.
C8_Termination ==
    /\ \A r \in Reqs : (req[r].pc # "idle") ~> (req[r].pc = "done")
    /\ [][\A r \in Reqs : req[r].pc = "done" => req'[r] = req[r]]_vars

\* C9: on a fresh proxy, requests without Prefer, no more of them than the global
\* capacity, and an upstream that never rate-limits: none is rejected locally.
C9_WithinCapacityAdmitted ==
    (/\ global_bucket.paused_until = 0
     /\ Cardinality({r \in Reqs : req[r].pc # "idle"}) * TokenUnit <= CAP_G
     /\ \A r \in Reqs : req[r].prefer_wait = 0)
    => \A r \in Reqs : req[r].detail # "rate_limited_local"

\* C10: a retry after 429/503 takes a fresh global token and a fresh connection
\* token before it forwards again; a retry after 500/502/504 takes none.
C10_RetryReentry ==
    [][\A r \in Reqs :
          /\ (req[r].pc = "sleep_rl" /\ Forwards(r)) =>
                /\ takeLog'[now] = takeLog[now] + 1
                /\ clients'[req[r].cid].tokens < Refill(clients[req[r].cid], now).tokens
          /\ (req[r].pc = "sleep_5xx" /\ Forwards(r)) =>
                /\ global_bucket' = global_bucket
                /\ clients' = clients]_vars

\* request r runs one iteration of the local admission loop in this step
Iterates(r) == req'[r].attempts = req[r].attempts + 1

\* the connection bucket that iteration takes from: on arrival, the one that
\* mark_active and prune_and_compute_rates leave
GateBucket(r) ==
    IF req[r].pc = "idle"
    THEN LET ma == MarkActive(clients, last_seen, req'[r].cid, now)
         IN  PruneAndComputeRates(ma.clients, ma.last_seen, now).clients[req'[r].cid]
    ELSE clients[req[r].cid]

\* C11: an admission iteration that fails, with no deadline or now + wait past the
\* deadline (wait = max of the two waits), ends the request with a local 429
\* carrying that wait and the number of iterations; no upstream call is made,
\* then or later.
C11_LocalRejection ==
    [][\A r \in Reqs :
          /\ Iterates(r) =>
                LET tg == Take(global_bucket, now)
                    tc == Take(GateBucket(r), now)
                    wait == Max(tg.wait, tc.wait)
                    dl == req'[r].deadline_ts
                IN  (~(tg.ok /\ tc.ok) /\ (dl = None \/ now * 1000 + wait > dl * 1000))
                    => /\ req'[r].pc = "done"
                       /\ req'[r].status = 429
                       /\ req'[r].detail = "rate_limited_local"
                       /\ req'[r].wait_required = wait
                       /\ req'[r].attempts = req'[r].local_waits + 1
                       /\ req'[r].calls = 0
          /\ req[r].detail = "rate_limited_local" => req'[r] = req[r]]_vars

\* C11 witness: a request with a deadline waited once and was then rejected.
C11_RejectedAfterWait ==
    \E r \in Reqs : /\ req[r].detail = "rate_limited_local"
                    /\ req[r].deadline_ts # None
                    /\ req[r].attempts >= 2

\* C12: on an upstream 429/503 with wait ra the request sleeps ra, counts one
\* more retry and forwards again exactly when it has a deadline and
\* now + ra <= deadline; otherwise it returns the upstream's 429/503 with the
\* retries made so far and ra.
C12_RateLimitedDecision ==
    [][\A r \in Reqs :
          /\ RateLimited(r) =>
                LET ra == req'[r].ra
                    dl == req[r].deadline_ts
                IN  IF dl # None /\ now + ra <= dl
                    THEN /\ req'[r].pc = "sleep_rl"
                         /\ req'[r].upstream_retries = req[r].upstream_retries + 1
                         /\ req'[r].wake = now + Max(0, ra)
                    ELSE /\ req'[r].pc = "done"
                         /\ req'[r].status \in RATE_LIMIT_STATUSES
                         /\ req'[r].detail = "upstream_rl"
                         /\ req'[r].upstream_retries = req[r].upstream_retries
          /\ (req[r].pc = "sleep_rl" /\ req'[r].pc # "sleep_rl") =>
                /\ now >= req[r].wake
                /\ req'[r].pc = "upstream"
                /\ req'[r].calls = req[r].calls + 1]_vars

\* C12 witness: a 429/503 with wait 2 was retried within the deadline and the
\* request ended with the upstream's 200.
C12_RetriedThenOk ==
    \E r \in Reqs : /\ req[r].pc = "done"
                    /\ req[r].status = 200
                    /\ req[r].ra = 2
                    /\ req[r].upstream_retries >= 1

\* min(2^i, 8)
BackoffOf(i) == IF i = 0 THEN 1 ELSE IF i = 1 THEN 2 ELSE IF i = 2 THEN 4 ELSE 8

\* the waits, in ms, that retry i of a transient failure may take
BackoffWaits(i) == {Min(BackoffOf(i) * 1000 + j, 8000) : j \in 100..500}

\* the upstream answered request r with 500/502/504 in this step
Transient(r) ==
    /\ req[r].pc = "upstream"
    /\ req'[r].pc = "sleep_5xx" \/ req'[r].detail = "upstream_5xx"

\* C13: retry i after a 500/502/504 waits min(min(2^i, 8) + jitter, 8) seconds,
\* jitter in [0.1, 0.5], and is made exactly when there is a deadline and
\* now + wait <= deadline; the response reports the re-forwards made, one
\* less than the upstream calls.
C13_TransientRetry ==
    [][\A r \in Reqs :
          /\ Transient(r) =>
                LET i == req[r].upstream_retries
                    dl == req[r].deadline_ts
                IN  IF req'[r].pc = "sleep_5xx"
                    THEN /\ dl # None
                         /\ req'[r].upstream_retries = i + 1
                         /\ \E w \in BackoffWaits(i) :
                               /\ now * 1000 + w <= dl * 1000
                               /\ req'[r].wake = now + CeilDiv(w, 1000)
                    ELSE /\ req'[r].pc = "done"
                         /\ req'[r].upstream_retries = i
                         /\ dl = None \/ \E w \in BackoffWaits(i) :
                                            now * 1000 + w > dl * 1000
          /\ (req[r].pc = "sleep_5xx" /\ req'[r].pc # "sleep_5xx") =>
                /\ now >= req[r].wake
                /\ req'[r].pc = "upstream"
                /\ req'[r].calls = req[r].calls + 1
          /\ (req'[r].pc = "done" /\ req'[r].calls >= 1) =>
                req'[r].calls = req'[r].upstream_retries + 1]_vars

\* C13 witness: 502, 502, 200 gave a 200 reporting two retries, and some request
\* made a retry with the backoff at its ceiling.
C13_TwoRetriesThenOk ==
    /\ \E r \in Reqs : /\ req[r].pc = "done"
                       /\ req[r].status = 200
                       /\ req[r].upstream_retries = 2
                       /\ req[r].calls = 3
    /\ \E r \in Reqs : req[r].pc = "sleep_5xx" /\ req[r].upstream_retries = 4

\* the upstream call of request r ended without an HTTP response in this step
NoResponse(r) ==
    /\ req[r].pc = "upstream"
    /\ req'[r].pc = "done"
    /\ req'[r].detail \notin {"upstream", "upstream_rl", "upstream_5xx"}

\* C14: an upstream call that fails without a response ends the request with a
\* local 502 upstream_unreachable, not a 500, and leaves buckets and registry
\* as they were.
C14_TransportFailure ==
    [][\A r \in Reqs : NoResponse(r) =>
          /\ req'[r].status = 502
          /\ req'[r].detail = "upstream_unreachable"
          /\ UNCHANGED <<clients, last_seen, global_bucket>>]_vars

\* C15: a Prefer wait that is negative or not a number counts as no header: the
\* deadline comes from the default (arrival + default when that is positive); a
\* non-negative number v gives arrival + v (v = 0 leaves no time to wait, with
\* or without a deadline).
C15_PreferParsing ==
    \A r \in Reqs : req[r].pc # "idle" =>
        LET p == req[r].prefer
            dl == req[r].deadline_ts
        IN  IF p = None \/ p = NON_NUMERIC \/ p < 0
            THEN dl = req[r].arrived + POSITIVE_DEFAULT
            ELSE IF p = 0 THEN dl \in {None, req[r].arrived}
            ELSE dl = req[r].arrived + p

\* C16: the Retry-After of a local 429 is ceil(wait) for the wait reported in
\* the body: never less than the wait, and at least 1 when the wait is positive.
C16_RetryAfterCeil ==
    \A r \in Reqs : req[r].detail = "rate_limited_local" =>
        /\ req[r].retry_after = CeilDiv(req[r].wait_required, 1000)
        /\ req[r].retry_after * 1000 >= req[r].wait_required
        /\ req[r].wait_required > 0 => req[r].retry_after >= 1

\* the global pause is in effect
Paused == now < global_bucket.paused_until

\* C17: an upstream 429/503 with wait ra at time t leaves paused_until >= t + ra,
\* whether the request retries or returns; and while the pause lasts every
\* take() on the global bucket is refused with wait = paused_until - now, so no
\* request passes local admission.
C17_CoordinatedBackoff ==
    [][/\ \A r \in Reqs : RateLimited(r) =>
             global_bucket'.paused_until >= now + req'[r].ra
       /\ Paused =>
             /\ ~Take(global_bucket, now).ok
             /\ Take(global_bucket, now).wait
                   = (global_bucket.paused_until - now) * 1000
             /\ takeLog' = takeLog
             /\ \A r \in Reqs : Iterates(r) =>
                   /\ req'[r].pc # "upstream"
                   /\ req'[r].pc = "done" =>
                         req'[r].wait_required
                            >= (global_bucket.paused_until - now) * 1000]_vars

\* C17 witness: during a pause set by another request's 429/503, a request was
\* refused for exactly the rest of the pause while the global bucket held a token.
C17_RefusedDuringPause ==
    \E r \in Reqs :
        /\ req[r].detail = "rate_limited_local"
        /\ req[r].done_at = now
        /\ Paused
        /\ global_bucket.tokens >= COST
        /\ req[r].wait_required = (global_bucket.paused_until - now) * 1000

\* the reset headers of the response request r has just received, in order
FirstReset(h) ==
    LET i == CHOOSE i \in 1..4 :
                 /\ Parses(h[i])
                 /\ \A j \in 1..(i - 1) : ~Parses(h[j])
    IN  h[i]

\* C18: ra is the value of the first of the four reset headers that is present
\* and numeric, the value 0 included (then the pause is not extended).
C18_HeaderPrecedence ==
    [][\A r \in Reqs : RateLimited(r) =>
          LET h == req'[r].got[2]
          IN  (\E i \in 1..4 : Parses(h[i])) =>
                 /\ req'[r].ra = FirstReset(h)
                 /\ FirstReset(h) = 0 =>
                       global_bucket'.paused_until
                          = Max(global_bucket.paused_until, now)]_vars

RECURSIVE Pow2(_)
Pow2(k) == IF k = 0 THEN 1 ELSE 2 * Pow2(k - 1)

\* the fallback wait before jitter, in ms, for retry attempt n
FallbackBase(sc, n) ==
    IF sc = 429 THEN 1000 + 500 * Min(n, 10) ELSE 5000 * Pow2(Min(n, 6))

\* C19: without any reset header, ra for attempt n is 1 s * (1 + 0.5 min(n, 10))
\* for a 429 and 5 s * 2^min(n, 6) for a 503, times a jitter in [0.8, 1.2]; and
\* the ra used always lies in [0, 300] s.
C19_FallbackWait ==
    [][\A r \in Reqs : RateLimited(r) =>
          LET sc == req'[r].got[1]
              h == req'[r].got[2]
              n == req[r].upstream_retries
              ra == req'[r].ra
          IN  /\ (\A i \in 1..4 : ~Parses(h[i])) =>
                    /\ 8 * FallbackBase(sc, n) <= ra * 10000
                    /\ ra * 10000 <= 12 * FallbackBase(sc, n)
              /\ 0 <= ra /\ ra <= 300]_vars

\* request r arrives in this step: mark_active and prune_and_compute_rates run
Arrives(r) == req[r].pc = "idle" /\ req'[r].pc # "idle"

\* C20: right after prune_and_compute_rates no connection idle for more than
\* 300 s is left in clients or last_seen, none idle for 300 s or less has been
\* removed, and an id that is not registered when its request arrives gets a new
\* bucket (its single token goes to that request).
C20_IdleEviction ==
    [][\A r \in Reqs : Arrives(r) =>
          /\ DOMAIN clients' = DOMAIN last_seen'
          /\ \A c \in DOMAIN last_seen' : now - last_seen'[c] <= IDLE_EVICT
          /\ \A c \in DOMAIN last_seen :
                now - last_seen[c] <= IDLE_EVICT => c \in DOMAIN last_seen'
          /\ req'[r].cid \notin DOMAIN clients =>
                /\ last_seen'[req'[r].cid] = now
                /\ clients'[req'[r].cid].last = now
                /\ clients'[req'[r].cid].tokens = 0
                /\ clients'[req'[r].cid].paused_until = 0]_vars

\* C20 witness: c1, first seen at time 0 and evicted since, is back with a new
\* bucket, while c2 sits idle for exactly 300 s and is kept.
C20_BackAfterEviction ==
    /\ \E r \in Reqs : /\ req[r].cid = "c1"
                       /\ req[r].arrived = now
                       /\ req[r].pc = "upstream"
    /\ now > IDLE_EVICT
    /\ "c1" \in DOMAIN clients /\ clients["c1"].tokens = 0
    /\ "c2" \in DOMAIN last_seen /\ now - last_seen["c2"] = IDLE_EVICT

\* the connection bucket b is quenched
Quenched(b) == b.rate = DORMANT_RATE /\ b.cap = TokenUnit

\* C21: right after prune_and_compute_rates every registered connection that is
\* not active has rate 1e-6 and cap 1; and an iteration of the admission loop
\* that takes from a quenched bucket is refused on it, whatever tokens it holds.
C21_Quenching ==
    [][\A r \in Reqs :
          /\ Arrives(r) =>
                \A c \in DOMAIN clients' :
                    now - last_seen'[c] > ACTIVE_WINDOW => Quenched(clients'[c])
          /\ (Iterates(r) /\ ~Arrives(r) /\ req[r].cid \in DOMAIN clients
              /\ Quenched(clients[req[r].cid])) =>
                /\ ~Take(clients[req[r].cid], now).ok
                /\ clients'[req[r].cid].tokens
                      = Refill(clients[req[r].cid], now).tokens]_vars

\* C22: rate and cap of a connection bucket change only in a step that runs
\* prune_and_compute_rates (a request arrives); take, pause, the retries and
\* mark_active of a registered id leave them alone; the global bucket keeps rate L/60 and cap CAP_G throughout.
C22_WhoSetsRates ==
    [][/\ (\E c \in DOMAIN clients \cap DOMAIN clients' :
              \/ clients'[c].rate # clients[c].rate
              \/ clients'[c].cap # clients[c].cap)
          => \E r \in Reqs : Arrives(r)
       /\ \A c \in DOMAIN clients :
             MarkActive(clients, last_seen, c, now).clients = clients
       /\ global_bucket.rate = RATE_G /\ global_bucket.cap = CAP_G
       /\ global_bucket'.rate = RATE_G /\ global_bucket'.cap = CAP_G]_vars

\* C22 witness: after a pause of the global bucket, one connection is quenched,
\* the other holds the whole rate, and a request has passed the gate on retry.
C22_PausedAndRebalanced ==
    /\ global_bucket.paused_until > 0
    /\ \E c \in DOMAIN clients : Quenched(clients[c])
    /\ \E c \in DOMAIN clients : clients[c].rate = RATE_G
    /\ \E r \in Reqs : req[r].pc = "upstream" /\ req[r].attempts >= 2

\* C23: the first take() at or after the end p1 of a pause, on a bucket not
\* refilled since before p1, sees at most min(cap, tokens at the start of the
\* pause + rate * (t - p1)) tokens, whether or not take() ran during the pause.
C23_PauseForfeitsAccrual ==
    [][(/\ global_bucket' # global_bucket
        /\ global_bucket'.paused_until = global_bucket.paused_until
        /\ 0 < global_bucket.paused_until
        /\ global_bucket.paused_until <= now
        /\ global_bucket.last < global_bucket.paused_until)
       => LET seen == global_bucket'.tokens
                         + (IF takeLog' # takeLog THEN COST ELSE 0)
          IN  seen <= Min(global_bucket.cap,
                          global_bucket.tokens
                             + global_bucket.rate * (now - global_bucket.paused_until))]_vars

\* request r is cancelled in this step
Cancelled(r) == req[r].detail # "cancelled" /\ req'[r].detail = "cancelled"

\* C24: clients and last_seen always hold the same ids, every registered bucket
\* has rate > 0, cap >= 1 and tokens >= 0; a cancellation at a sleep or at the
\* upstream call changes neither registry nor buckets; and a request whose id
\* is registered, the id of a cancelled request included, finds its bucket.
C24_CancelKeepsRegistry ==
    [][/\ DOMAIN clients' = DOMAIN last_seen'
       /\ \A c \in DOMAIN clients' :
             /\ clients'[c].rate > 0
             /\ clients'[c].cap >= TokenUnit
             /\ clients'[c].tokens >= 0
       /\ \A r \in Reqs :
             /\ Cancelled(r) => UNCHANGED <<clients, last_seen, global_bucket>>
             /\ Arrives(r) => /\ req'[r].cid \in DOMAIN clients'
                              /\ req'[r].detail # "internal_error"]_vars

\* C24 witness: a request was cancelled in its local admission sleep, and a
\* later request of the same connection has been forwarded.
C24_ServedAfterCancel ==
    \E r \in Reqs, q \in Reqs :
        /\ req[r].detail = "cancelled"
        /\ req[r].local_waits >= 1 /\ req[r].calls = 0
        /\ req[q].cid = req[r].cid
        /\ req[q].arrived >= req[r].done_at
        /\ req[q].pc = "upstream"

\* C25: an iteration of the admission loop in which either take is refused
\* leaves both buckets with what refill alone gives; an iteration in which both
\* are accepted removes exactly one token from each.
C25_FailedIterationFree ==
    [][\A r \in Reqs :
          (Iterates(r) /\ req'[r].cid \in DOMAIN clients') =>
             LET g == Refill(global_bucket, now).tokens
                 c == Refill(GateBucket(r), now).tokens
                 g1 == global_bucket'.tokens
                 c1 == clients'[req'[r].cid].tokens
             IN  IF req'[r].pc = "upstream"
                 THEN g1 = g - COST /\ c1 = c - COST
                 ELSE g1 = g /\ c1 = c]_vars

\* C26: while a request sleeps in its local admission loop its connection stays
\* registered and is not quenched, whatever prune_and_compute_rates calls other
\* requests trigger meanwhile, and no request ends in a 500.
C26_InFlightStaysActive ==
    \A r \in Reqs :
        /\ req[r].pc = "sleep_local" =>
              /\ req[r].cid \in DOMAIN clients
              /\ ~Quenched(clients[req[r].cid])
        /\ req[r].detail # "internal_error"

\* the entries of queue q that are less than one window i old at time t
Unexpired(q, i, t) ==
    LET young(ts) == ts > t - Windows[i].win * MockUnit
    IN  SelectSeq(q, young)

\* calls of key accepted in the window i that ends at time t
AcceptedIn(log, key, i, t) ==
    Cardinality({j \in DOMAIN log[key] :
                    /\ log[key][j] > t - Windows[i].win * MockUnit
                    /\ log[key][j] <= t})

\* C27: for every key and window (limit, win) the calls accepted within any
\* span of win seconds (t - win, t] number at most limit; a blocked call records
\* nothing, drops only expired entries of its key and leaves the other keys
\* alone; and a call of the same key Retry-After seconds after a blocked one is
\* accepted when none was accepted in between.
C27_SlidingWindow ==
    [][/\ \A key \in MockKeys, i \in DOMAIN Windows, t \in 0..mnow' :
             AcceptedIn(accepted', key, i, t) <= Windows[i].limit
       /\ (mnow' = mnow /\ ~reply'.ok) =>
             LET k == reply'.key
             IN  /\ accepted' = accepted
                 /\ DOMAIN store' = DOMAIN store \cup {k}
                 /\ \A c \in DOMAIN store \ {k} : store'[c] = store[c]
                 /\ \A i \in DOMAIN Windows :
                       store'[k][i] = Unexpired(IF k \in DOMAIN store
                                                THEN store[k][i] ELSE <<>>, i, mnow)
                 /\ CheckAndCommit(store', k,
                                   mnow + reply'.retry_after * MockUnit).ok]_vars

\* C27 witness: key:a, which has had more calls accepted than its first window
\* allows at once, is blocked by a full window whose oldest entry is not a
\* whole number of seconds old, while key:b has entries of its own.
C27_BlockedAfterSliding ==
    /\ ~reply.ok /\ reply.key = "key:a" /\ reply.retry_after >= 1
    /\ Len(accepted["key:a"]) > MockLimit
    /\ \E i \in DOMAIN Windows :
          /\ Len(store["key:a"][i]) = Windows[i].limit
          /\ (mnow - Head(store["key:a"][i])) % MockUnit # 0
    /\ "key:b" \in DOMAIN store /\ Len(accepted["key:b"]) >= 1

====
